---- MODULE Spec2Model ----
(***************************************************************************)
(* State-machine model of the NBA live dashboard server (src/index.js):    *)
(* the /api/odds, /api/scores and /api/history handlers, the process-wide  *)
(* cache and request window, and the in-memory line history.               *)
(*                                                                         *)
(* Node runs the handlers on one thread: a handler runs without            *)
(* interruption from its start to its first `await`, and from the          *)
(* resumption of an awaited upstream call to the next one.  Each such run  *)
(* is one action.  `await fetch()` followed by `await r.json()` /          *)
(* `await r.text()` touches no shared state in between, so the pair is one *)
(* suspension here.                                                        *)
(***************************************************************************)
EXTENDS Integers, Sequences, FiniteSets, Bags, TLC

\* ---------------------------------------------------------------- bounds
MaxReq == 2          \* handlers that can be in flight at once
MaxTicks == 4        \* how many times the wall clock advances

\* ------------------------------------------------------ program constants
CACHE_MS == 30000
WINDOW_MS == 45000
HISTORY_CAP == 2000
ERR_DETAIL_MAX == 200
DAY_MS == 24 * 60 * 60 * 1000

\* The wall clock advances in steps of half a TTL, so that both the TTL
\* (2 steps) and the window (3 steps) boundaries are hit exactly and crossed.
TickMs == CACHE_MS \div 2
\* Date.now() when the process is constructed: two steps before a local
\* midnight, so that the run crosses a day boundary (the day number is kept
\* small so that every instant fits TLC's 32-bit integers).
StartMs == 20 * DAY_MS - 2 * TickMs

\* ------------------------------------------------------------ JS values
\* null / undefined of an optional value, and the value when present
None == << >>
Some(x) == << x >>
\* a JSON scalar that may or may not be a number (typeof x === "number")
JSNull == [type |-> "null", num |-> 0]
JSNum(n) == [type |-> "number", num |-> n]
JSStr == [type |-> "string", num |-> 0]
\* a missing string field
NoStr == ""

Min(a, b) == IF a < b THEN a ELSE b

\* arr.find(pred): the first element satisfying Test, as an optional
RECURSIVE FindFrom(_, _, _)
FindFrom(arr, Test(_), i) ==
  IF i > Len(arr) THEN None
  ELSE IF Test(arr[i]) THEN Some(arr[i])
  ELSE FindFrom(arr, Test, i + 1)
Find(arr, Test(_)) == FindFrom(arr, Test, 1)

\* ------------------------------------------------------- upstream inputs
GameIds == {"g1", "g2", "g3"}
\* req.query of an /api/odds request: << live, bookmaker >>, NoStr when absent
OddsQueries == { << NoStr, NoStr >>, << "false", "fanduel" >> }

Outcome(name, point) == [name |-> name, point |-> point]
Totals(outcomes) == [key |-> "totals", outcomes |-> outcomes]
Bookmaker(key, title, outcomes) ==
  [key |-> key, title |-> title, last_update |-> "u", markets |-> << Totals(outcomes) >>]
OddsGame(id, ct, bks) ==
  [id |-> id, sport_key |-> "basketball_nba", commence_time |-> ct,
   home_team |-> "Lakers", away_team |-> "Celtics", bookmakers |-> bks]

\* The board the odds provider answers with: a JSON array of three games.
OddsBoard ==
     << \* both bookmakers quote g1; fanduel only has the Under outcome
       OddsGame("g1", "2024-10-01T23:00:00Z",
         << Bookmaker("draftkings", "DraftKings", << Outcome("Over", JSNum(210)), Outcome("Under", JSNum(215)) >>),
            Bookmaker("fanduel", "FanDuel", << Outcome("Under", JSNum(215)) >>) >>),
       \* a game without commence_time
       OddsGame("g2", NoStr,
         << Bookmaker("draftkings", "DraftKings", << Outcome("Over", JSNum(210)) >>) >>),
       \* a game whose draftkings point is not a number
       OddsGame("g3", "2024-10-01T23:30:00Z",
         << Bookmaker("draftkings", "DraftKings", << Outcome("Over", JSStr) >>),
            Bookmaker("fanduel", "FanDuel", << Outcome("Over", JSNum(210)) >>) >>) >>

\* Bodies the odds provider may answer with; << >> is JSON null or an empty
\* array: (data || []) is empty.
OddsPayloads == { OddsBoard, << >> }

\* Lengths of the texts an upstream error body or a thrown error carries.
UpstreamTextLens == {600}
ThrownTextLens == {250}

\* ------------------------------------------------------------------ state
VARIABLES
  clock,     \* Date.now()
  cache,     \* the process-wide cache object, window included
  history,   \* Map game id -> array of { ts, y }
  inflight,  \* bag of the handlers suspended on an upstream call
  sent,      \* the response written in the current event-loop turn, if any
  upstream,  \* per upstream resource: the instant of the last call dispatched
  load       \* how many requests the clients let overlap (fixed by Init)

vars == << clock, cache, history, inflight, sent, upstream, load >>

\* a handler suspended at `await fetch(...)`: its locals (win: the window in
\* which the odds handler dispatched its call)
Handler(pc, live, bookmaker, now, win, data, espnNow) ==
  [pc |-> pc, live |-> live, bookmaker |-> bookmaker, now |-> now, win |-> win,
   data |-> data, espnNow |-> espnNow]
OddsHandler(live, bookmaker, now, win) ==
  Handler("odds_fetch", live, bookmaker, now, win, << >>, 0)
ScoresHandler(now) == Handler("scores_fetch", TRUE, NoStr, now, 0, << >>, 0)
EspnHandler(now, data, espnNow) == Handler("espn_fetch", TRUE, NoStr, now, 0, data, espnNow)

NoResponse ==
  [kind |-> "none", live |-> TRUE, bookmaker |-> NoStr,
   status |-> 0, body |-> << >>, fetched |-> FALSE, win |-> 0]

\* const cache = { ... } ; const history = new Map()
InitCache ==
  [odds |-> None, oddsTs |-> 0, live |-> TRUE, bookmaker |-> "draftkings",
   scores |-> None, scoresTs |-> 0, espn |-> None, espnTs |-> 0,
   windowStart |-> 0, windowUsed |-> FALSE]

\* The process right after construction, under clients that let n requests overlap.
Constructed(n) ==
  /\ clock = StartMs
  /\ cache = InitCache
  /\ history = << >>
  /\ inflight = EmptyBag
  /\ sent = NoResponse
  /\ upstream = [odds |-> 0, scores |-> 0, espn |-> 0]
  /\ load = n

\* Requests arrive one at a time: a request arrives after the previous one
\* was answered.
Init == Constructed(1)
\* Requests overlap.
InitOverlap == Constructed(MaxReq)

\* The wall clock moves on.
Tick ==
  /\ sent = NoResponse
  /\ clock < StartMs + MaxTicks * TickMs
  /\ clock' = clock + TickMs
  /\ UNCHANGED << cache, history, inflight, sent, upstream, load >>

\* The turn of the event loop that wrote a response ends.
NextTurn ==
  /\ sent # NoResponse
  /\ sent' = NoResponse
  /\ UNCHANGED << clock, cache, history, inflight, upstream, load >>

\* A handler may start or resume: the previous turn is over.
TurnStarts == sent = NoResponse
CanSuspend == BagCardinality(inflight) < load

\* res.json(body) / res.status(status).json(body) for the request (kind, live,
\* bookmaker); fetched says whether the handler dispatched an upstream call,
\* win is the window in which it did.
Respond(kind, live, bookmaker, status, body, fetched, win) ==
  sent' = [kind |-> kind, live |-> live, bookmaker |-> bookmaker,
           status |-> status, body |-> body, fetched |-> fetched, win |-> win]

Suspend(q) == inflight' = inflight (+) SetToBag({q})
Resume(q) == inflight' = inflight (-) SetToBag({q})

\* ------------------------------------------------------------ withinWindow
WindowExpired(c, now) == c.windowStart = 0 \/ now - c.windowStart > WINDOW_MS

\* withinWindow() opening a new window at every call
withinWindow_AlwaysReset(c, now) == [c EXCEPT !.windowStart = now, !.windowUsed = FALSE]
\* the cache after withinWindow() ran at `now`; it returns used = windowUsed
withinWindow(c, now) ==
  IF WindowExpired(c, now)
  THEN [c EXCEPT !.windowStart = now, !.windowUsed = FALSE]
  ELSE c

\* ------------------------------------------------------------- /api/odds
ParseLive(q) == IF q = "false" THEN FALSE ELSE TRUE
ParseBookmaker(q) == IF q = NoStr THEN "draftkings" ELSE q

OddsFresh(c, now, live, bookmaker) ==
  /\ c.odds # None
  /\ now - c.oddsTs < CACHE_MS
  /\ c.live = live
  /\ c.bookmaker = bookmaker

\* the stale-serve test with the window flag inverted
OddsStale_FlagInverted(c, used) == ~used /\ c.odds # None
OddsStale(c, used) == used /\ c.odds # None

\* rows = (data || []).map(g => ...)
OddsRow(g, bookmaker) ==
  LET bk == Find(g.bookmakers, LAMBDA b : b.key = bookmaker)
      totals == IF bk = None THEN None ELSE Find(bk[1].markets, LAMBDA m : m.key = "totals")
      over == IF totals = None THEN None
              ELSE Find(totals[1].outcomes, LAMBDA o : o.name = "Over")
      under == IF totals = None THEN None
               ELSE Find(totals[1].outcomes, LAMBDA o : o.name = "Under")
      point == IF over # None /\ over[1].point # JSNull THEN over[1].point
               ELSE IF under # None /\ under[1].point # JSNull THEN under[1].point
               ELSE JSNull
  IN [id |-> g.id, sport_key |-> g.sport_key, commence_time |-> g.commence_time,
      home_team |-> g.home_team, away_team |-> g.away_team,
      bookmaker |-> IF bk # None /\ bk[1].title # NoStr THEN bk[1].title ELSE bookmaker,
      bookmaker_last_update |-> IF bk # None THEN bk[1].last_update ELSE NoStr,
      total_point |-> IF point.type = "number" THEN point ELSE JSNull]

OddsRows(data, bookmaker) == [i \in 1..Len(data) |-> OddsRow(data[i], bookmaker)]

\* ---------------------------------------------------------- history append
\* the recording test without the commence_time check
ShouldRecord_AnyTime(g) == g.total_point.type = "number"
ShouldRecord(g) == g.total_point.type = "number" /\ g.commence_time # NoStr

\* eviction dropping the newest point (pop) instead of the oldest (shift)
Evict_DropsNewest(arr) == IF Len(arr) > HISTORY_CAP THEN SubSeq(arr, 1, HISTORY_CAP) ELSE arr
\* if (arr.length > 2000) arr.shift()
Evict(arr) == IF Len(arr) > HISTORY_CAP THEN Tail(arr) ELSE arr

\* history.has / set / get, arr.push, arr.shift for one point
Record(h, id, pt) ==
  LET arr == IF id \in DOMAIN h THEN h[id] ELSE << >>
  IN [x \in DOMAIN h \cup {id} |-> IF x = id THEN Evict(Append(arr, pt)) ELSE h[x]]

\* const ts = Date.now(), at the append and not at the request's arrival
RecordTs_AtArrival(q, t) == q.now
RecordTs(q, t) == t

\* for (const g of rows) { ... }
RECURSIVE RecordRows(_, _, _, _)
RecordRows(h, rows, i, ts) ==
  IF i > Len(rows) THEN h
  ELSE RecordRows(IF ShouldRecord(rows[i])
                  THEN Record(h, rows[i].id, [ts |-> ts, y |-> rows[i].total_point.num])
                  ELSE h,
                  rows, i + 1, ts)

\* The handler from its start to the response or to `await fetch(...)`.
OddsRequest(query) ==
  LET live == ParseLive(query[1])
      bookmaker == ParseBookmaker(query[2])
      now == clock
      c == withinWindow(cache, now)
      used == c.windowUsed
  IN /\ TurnStarts
     /\ cache' = c
     /\ IF OddsFresh(c, now, live, bookmaker) \/ OddsStale(c, used)
        THEN /\ Respond("odds", live, bookmaker, 200, c.odds[1], FALSE, 0)
             /\ UNCHANGED << inflight, upstream >>
        ELSE /\ CanSuspend
             /\ Suspend(OddsHandler(live, bookmaker, now, c.windowStart))
             /\ upstream' = [upstream EXCEPT !.odds = clock]
             /\ UNCHANGED sent
     /\ UNCHANGED << clock, history, load >>

\* the cache write marking the window used without storing the rows
OddsCacheWrite_FlagOnly(c, rows, now, live, bookmaker) == [c EXCEPT !.windowUsed = TRUE]
\* the cache write leaving the fingerprint of the previous entry
OddsCacheWrite_NoFingerprint(c, rows, now, live, bookmaker) ==
  [c EXCEPT !.odds = Some(rows), !.oddsTs = now, !.windowUsed = TRUE]
\* cache.odds = rows ... cache.windowUsed = true
OddsCacheWrite(c, rows, now, live, bookmaker) ==
  [c EXCEPT !.odds = Some(rows), !.oddsTs = now, !.live = live,
            !.bookmaker = bookmaker, !.windowUsed = TRUE]

\* The upstream call resolved with r.ok and a JSON array: rows, history, cache.
OddsResolveOk(q, data) ==
  LET rows == OddsRows(data, q.bookmaker)
  IN /\ TurnStarts
     /\ q.pc = "odds_fetch"
     /\ history' = RecordRows(history, rows, 1, RecordTs(q, clock))
     /\ cache' = OddsCacheWrite(cache, rows, q.now, q.live, q.bookmaker)
     /\ Respond("odds", q.live, q.bookmaker, 200, rows, TRUE, q.win)
     /\ Resume(q)
     /\ UNCHANGED << clock, upstream, load >>

\* The upstream call resolved with !r.ok: 422 with the upstream text as detail.
OddsResolveNotOk(q, textLen) ==
  /\ TurnStarts
  /\ q.pc = "odds_fetch"
  /\ Respond("odds", q.live, q.bookmaker, 422,
             [error |-> "Upstream error", status |-> 422, detail |-> textLen], TRUE, q.win)
  /\ Resume(q)
  /\ UNCHANGED << clock, cache, history, upstream, load >>

\* the catch block ending the handler without writing a response
OddsResolveThrow_NoResponse(q, errLen) ==
  /\ TurnStarts
  /\ q.pc = "odds_fetch"
  /\ Resume(q)
  /\ UNCHANGED << clock, cache, history, sent, upstream, load >>
\* fetch() rejected, r.json() rejected, or data is no array: the catch block.
OddsResolveThrow(q, errLen) ==
  /\ TurnStarts
  /\ q.pc = "odds_fetch"
  /\ Respond("odds", q.live, q.bookmaker, 500,
             [error |-> "Server error", detail |-> Min(errLen, ERR_DETAIL_MAX)], TRUE, q.win)
  /\ Resume(q)
  /\ UNCHANGED << clock, cache, history, upstream, load >>

\* ----------------------------------------------------------- /api/history
\* new Date(y, m, d).getTime() of today: the local midnight at or before t
\* (the process runs in UTC; every day has 24 hours)
StartOfLocalDay(t) == (t \div DAY_MS) * DAY_MS

\* the day test excluding the first instant of the day
InDay_AfterStart(p, start, end) == p.ts > start /\ p.ts < end
InDay(p, start, end) == p.ts >= start /\ p.ts < end

\* arr.filter(p => p.ts >= start && p.ts < end)
FilterDay(arr, start, end) == SelectSeq(arr, LAMBDA p : InDay(p, start, end))

\* out[gameId] = filtered, for the entries with filtered.length
HistoryOut(h, start, end) ==
  [g \in {x \in DOMAIN h : Len(FilterDay(h[x], start, end)) > 0} |-> FilterDay(h[g], start, end)]

HistoryRequest ==
  LET start == StartOfLocalDay(clock)
      end == start + DAY_MS
  IN /\ TurnStarts
     /\ Respond("history", TRUE, NoStr, 200, HistoryOut(history, start, end), FALSE, 0)
     /\ UNCHANGED << clock, cache, history, inflight, upstream, load >>

\* ------------------------------------------------------------- strings
\* A string the code inspects is a sequence of one-character strings.
UpperChars == << "A", "B", "C", "D", "E", "F", "G", "H", "I", "J", "K", "L", "M",
                 "N", "O", "P", "Q", "R", "S", "T", "U", "V", "W", "X", "Y", "Z" >>
LowerChars == << "a", "b", "c", "d", "e", "f", "g", "h", "i", "j", "k", "l", "m",
                 "n", "o", "p", "q", "r", "s", "t", "u", "v", "w", "x", "y", "z" >>
Digits == { "0", "1", "2", "3", "4", "5", "6", "7", "8", "9" }

LowerChar(ch) ==
  IF \E i \in 1..26 : UpperChars[i] = ch
  THEN LowerChars[CHOOSE i \in 1..26 : UpperChars[i] = ch]
  ELSE ch
\* s.toLowerCase()
ToLowerCase(str) == [i \in 1..Len(str) |-> LowerChar(str[i])]

RECURSIVE TrimStart(_)
TrimStart(str) == IF str # << >> /\ Head(str) = " " THEN TrimStart(Tail(str)) ELSE str
RECURSIVE TrimEnd(_)
TrimEnd(str) ==
  IF str # << >> /\ str[Len(str)] = " " THEN TrimEnd(SubSeq(str, 1, Len(str) - 1)) ELSE str
\* s.trim()
Trim(str) == TrimEnd(TrimStart(str))

\* re.test(s) for a literal pattern with the i flag
ContainsCI(str, pat) ==
  \E i \in 0..(Len(str) - Len(pat)) :
    ToLowerCase(SubSeq(str, i + 1, i + Len(pat))) = ToLowerCase(pat)

\* String(s || "").toLowerCase().replace(/[^a-z0-9 ]+/g, "").trim()
normTeam(str) ==
  LET kept(ch) == (\E i \in 1..26 : LowerChars[i] = ch) \/ ch \in Digits \/ ch = " "
  IN Trim(SelectSeq(ToLowerCase(str), kept))

\* ------------------------------------------------------------ /api/scores
\* Number(x) of a JSON scalar, NaN as None
ToNumber(v) ==
  CASE v.type = "number" -> Some(v.num)
    [] v.type = "numstr" -> Some(v.num)
    [] v.type = "null" -> Some(0)
    [] OTHER -> None

\* the value of map.get(key), the last entry set for key winning, or None
RECURSIVE MapGet(_, _, _)
MapGet(entries, key, i) ==
  IF i = 0 THEN None
  ELSE IF entries[i].key = key THEN Some(entries[i].val)
  ELSE MapGet(entries, key, i - 1)

extractTeamTotals(g) ==
  LET entries == IF g.scores = None THEN << >>
                 ELSE SelectSeq([i \in 1..Len(g.scores[1]) |->
                                   [key |-> normTeam(g.scores[1][i].name),
                                    val |-> ToNumber(g.scores[1][i].score)]],
                                LAMBDA e : e.val # None)
      home == MapGet(entries, normTeam(g.home_team), Len(entries))
      away == MapGet(entries, normTeam(g.away_team), Len(entries))
  IN [home_score |-> IF home = None THEN JSNull ELSE JSNum(home[1][1]),
      away_score |-> IF away = None THEN JSNull ELSE JSNum(away[1][1])]

TeamPairKey(away, home) == away \o << "_", "_" >> \o home

\* the retention test keeping every event
EspnValid_Always(state, per) == TRUE
\* const valid = ["in", "post"].includes(state) || per != null
EspnValid(state, per) == state \in { << "i", "n" >>, << "p", "o", "s", "t" >> } \/ per # JSNull

\* one event of the scoreboard as getEspnClockMap reads it: None when skipped
EspnEntry(ev) ==
  LET home == normTeam(ev.home)
      away == normTeam(ev.away)
      period == IF ToNumber(ev.period) = None \/ ToNumber(ev.period) = Some(0)
                THEN JSNull ELSE JSNum(ToNumber(ev.period)[1])
      dclock == IF Trim(ev.displayClock) = << >> THEN None ELSE Some(Trim(ev.displayClock))
      state == ToLowerCase(ev.state)
      \* re.test(null) tests the text "null"
      clockText == IF dclock = None THEN << "n", "u", "l", "l" >> ELSE dclock[1]
      half == ContainsCI(clockText, << "h", "a", "l", "f" >>)
      final == ContainsCI(clockText, << "f", "i", "n", "a", "l" >>) \/ state = << "p", "o", "s", "t" >>
      per == IF final THEN JSNum(4) ELSE IF half THEN JSNum(3) ELSE period
      clk == IF final THEN Some(<< "0", ":", "0", "0" >>)
             ELSE IF half THEN Some(<< "1", "2", ":", "0", "0" >>)
             ELSE dclock
      valid == EspnValid(state, per)
  IN IF home = << >> \/ away = << >> \/ ~valid THEN None
     ELSE Some([key |-> TeamPairKey(away, home), val |-> [period |-> per, clock |-> clk]])

\* the Map built from json.events: its entries in insertion order
EspnMap(events) ==
  LET all == [i \in 1..Len(events) |-> EspnEntry(events[i])]
      kept == SelectSeq(all, LAMBDA e : e # None)
  IN [i \in 1..Len(kept) |-> kept[i][1]]

ScoreEntry(name, score) == [name |-> name, score |-> score]
ScoresGame(id, home, away, ct, completed, scores) ==
  [id |-> id, home_team |-> home, away_team |-> away, commence_time |-> ct,
   completed |-> completed, scores |-> scores]
Lakers == << "L", "a", "k", "e", "r", "s" >>
Celtics == << "C", "e", "l", "t", "i", "c", "s" >>
Knicks == << "K", "n", "i", "c", "k", "s" >>
Heat == << "H", "e", "a", "t" >>

\* Bodies the scores provider may answer with: a game under way and a game
\* that tips off three clock steps after the process started.
ScoresPayloads ==
  { << ScoresGame("g1", Lakers, Celtics, Some(StartMs - DAY_MS), FALSE,
         Some(<< ScoreEntry(Lakers, [type |-> "numstr", num |-> 55]),
                 ScoreEntry(Celtics, [type |-> "numstr", num |-> 50]) >>)),
       ScoresGame("g2", Knicks, Heat, Some(StartMs + 3 * TickMs), TRUE,
         Some(<< ScoreEntry(Knicks, [type |-> "numstr", num |-> 2]),
                 ScoreEntry(Heat, [type |-> "numstr", num |-> 0]) >>)) >> }

EspnEvent(home, away, period, displayClock, state) ==
  [home |-> home, away |-> away, period |-> period, displayClock |-> displayClock, state |-> state]

\* Scoreboards the clock provider may answer with.
Bulls == << "B", "u", "l", "l", "s" >>
Nets == << "N", "e", "t", "s" >>
Suns == << "S", "u", "n", "s" >>
Jazz == << "J", "a", "z", "z" >>
Spurs == << "S", "p", "u", "r", "s" >>
Kings == << "K", "i", "n", "g", "s" >>
Magic == << "M", "a", "g", "i", "c" >>
\* a game under way, a game at halftime, a finished game still showing
\* "Halftime", a finished game showing "Final", a game not started without a
\* period, an event without a home team name, and a game not started whose
\* period is set
EspnBoard ==
  << EspnEvent(Lakers, Celtics, JSNum(2), << "5", ":", "3", "0" >>, << "i", "n" >>),
     EspnEvent(Knicks, Heat, JSNum(1), << "H", "a", "l", "f", "t", "i", "m", "e" >>, << "i", "n" >>),
     EspnEvent(Bulls, Nets, JSNum(2), << "H", "a", "l", "f", "t", "i", "m", "e" >>, << "p", "o", "s", "t" >>),
     EspnEvent(Suns, Jazz, JSNum(4), << "F", "i", "n", "a", "l" >>, << "p", "o", "s", "t" >>),
     EspnEvent(Spurs, Kings, JSNull, << >>, << "p", "r", "e" >>),
     EspnEvent(<< "-" >>, Magic, JSNum(1), << "9", ":", "0", "0" >>, << "i", "n" >>),
     EspnEvent(Magic, Kings, JSNum(1), << "1", "2", ":", "0", "0" >>, << "p", "r", "e" >>) >>
EspnPayloads == { EspnBoard }

\* What the handlers compute from a game or a scoreboard alone, tabulated over
\* the bodies the providers may answer with.
ScoresGames == UNION {{data[i] : i \in 1..Len(data)} : data \in ScoresPayloads}
TeamTotalsOf == [g \in ScoresGames |-> extractTeamTotals(g)]
GameKeyOf == [g \in ScoresGames |-> TeamPairKey(normTeam(g.away_team), normTeam(g.home_team))]
EspnMapOf == [events \in EspnPayloads |-> EspnMap(events)]

\* one row of /api/scores at Date.now() = t
ScoresRow(g, espnMap, t) ==
  LET totals == TeamTotalsOf[g]
      beforeTip == g.commence_time # None /\ t < g.commence_time[1]
      e == MapGet(espnMap, GameKeyOf[g], Len(espnMap))
      period == IF e = None THEN JSNull ELSE e[1].period
      clk == IF e = None THEN None ELSE e[1].clock
  IN [id |-> g.id, home_team |-> g.home_team, away_team |-> g.away_team,
      home_score |-> IF beforeTip THEN JSNull ELSE totals.home_score,
      away_score |-> IF beforeTip THEN JSNull ELSE totals.away_score,
      period |-> IF beforeTip THEN JSNull ELSE period,
      clock |-> IF beforeTip THEN None ELSE clk,
      completed |-> g.completed]

ScoresRows(data, espnMap, t) == [i \in 1..Len(data) |-> ScoresRow(data[i], espnMap, t)]

ScoresFresh(c, now) == c.scores # None /\ now - c.scoresTs < CACHE_MS
EspnFresh(c, now) == c.espn # None /\ now - c.espnTs < CACHE_MS

\* The handler from its start to the response or to `await fetch(...)`.
ScoresRequest ==
  LET now == clock
  IN /\ TurnStarts
     /\ IF ScoresFresh(cache, now)
        THEN /\ Respond("scores", TRUE, NoStr, 200, cache.scores[1], FALSE, 0)
             /\ UNCHANGED << inflight, upstream >>
        ELSE /\ CanSuspend
             /\ Suspend(ScoresHandler(now))
             /\ upstream' = [upstream EXCEPT !.scores = clock]
             /\ UNCHANGED sent
     /\ UNCHANGED << clock, cache, history, load >>

\* out = data.map(...) ; cache.scores = out ; cache.scoresTs = now ; res.json(out)
ScoresFinish(c, now, data, espnMap) ==
  LET out == ScoresRows(data, espnMap, clock)
  IN /\ cache' = [c EXCEPT !.scores = Some(out), !.scoresTs = now]
     /\ Respond("scores", TRUE, NoStr, 200, out, TRUE, 0)

\* The scores call resolved with r.ok and a JSON array; getEspnClockMap()
\* answers from its cache or suspends the handler on the scoreboard call.
ScoresResolveOk(q, data) ==
  /\ TurnStarts
  /\ q.pc = "scores_fetch"
  /\ IF EspnFresh(cache, clock)
     THEN /\ ScoresFinish(cache, q.now, data, cache.espn[1])
          /\ Resume(q)
          /\ UNCHANGED upstream
     ELSE /\ inflight' = (inflight (-) SetToBag({q})) (+) SetToBag({EspnHandler(q.now, data, clock)})
          /\ upstream' = [upstream EXCEPT !.espn = clock]
          /\ UNCHANGED << cache, sent >>
  /\ UNCHANGED << clock, history, load >>

ScoresResolveNotOk(q, textLen) ==
  /\ TurnStarts
  /\ q.pc = "scores_fetch"
  /\ Respond("scores", TRUE, NoStr, 422,
             [error |-> "Upstream error", status |-> 422, detail |-> textLen], TRUE, 0)
  /\ Resume(q)
  /\ UNCHANGED << clock, cache, history, upstream, load >>

\* fetch() rejected, r.json() rejected, or data is no array: the catch block.
ScoresResolveThrow(q, errLen) ==
  /\ TurnStarts
  /\ q.pc = "scores_fetch"
  /\ Respond("scores", TRUE, NoStr, 500,
             [error |-> "Server error", detail |-> Min(errLen, ERR_DETAIL_MAX)], TRUE, 0)
  /\ Resume(q)
  /\ UNCHANGED << clock, cache, history, upstream, load >>

\* The scoreboard call resolved with r.ok and JSON: the map is built and cached.
EspnResolveOk(q, events) ==
  LET out == EspnMapOf[events]
  IN /\ TurnStarts
     /\ q.pc = "espn_fetch"
     /\ ScoresFinish([cache EXCEPT !.espn = Some(out), !.espnTs = q.espnNow], q.now, q.data, out)
     /\ Resume(q)
     /\ UNCHANGED << clock, history, upstream, load >>

\* the scoreboard failure failing the scores request: 500, nothing cached
EspnResolveFail_FailsRequest(q) ==
  /\ TurnStarts
  /\ q.pc = "espn_fetch"
  /\ Respond("scores", TRUE, NoStr, 500,
             [error |-> "Server error", detail |-> ERR_DETAIL_MAX], TRUE, 0)
  /\ Resume(q)
  /\ UNCHANGED << clock, cache, history, upstream, load >>
\* The scoreboard call failed (transport, status or body): an empty map is cached.
EspnResolveFail(q) ==
  /\ TurnStarts
  /\ q.pc = "espn_fetch"
  /\ ScoresFinish([cache EXCEPT !.espn = Some(<< >>), !.espnTs = q.espnNow], q.now, q.data, << >>)
  /\ Resume(q)
  /\ UNCHANGED << clock, history, upstream, load >>

ScoresActions ==
  \/ ScoresRequest
  \/ \E q \in BagToSet(inflight), data \in ScoresPayloads : ScoresResolveOk(q, data)
  \/ \E q \in BagToSet(inflight), n \in UpstreamTextLens : ScoresResolveNotOk(q, n)
  \/ \E q \in BagToSet(inflight), n \in ThrownTextLens : ScoresResolveThrow(q, n)
  \/ \E q \in BagToSet(inflight), events \in EspnPayloads : EspnResolveOk(q, events)
  \/ \E q \in BagToSet(inflight) : EspnResolveFail(q)

OddsActions ==
  \/ \E query \in OddsQueries : OddsRequest(query)
  \/ \E q \in BagToSet(inflight), data \in OddsPayloads : OddsResolveOk(q, data)
  \/ \E q \in BagToSet(inflight), n \in UpstreamTextLens : OddsResolveNotOk(q, n)
  \/ \E q \in BagToSet(inflight), n \in ThrownTextLens : OddsResolveThrow(q, n)

NextOdds ==
  \/ Tick
  \/ NextTurn
  \/ OddsActions
  \/ HistoryRequest

NextScores ==
  \/ Tick
  \/ NextTurn
  \/ ScoresActions
  \/ HistoryRequest

Next ==
  \/ Tick
  \/ NextTurn
  \/ OddsActions
  \/ ScoresActions
  \/ HistoryRequest

\* A state the process is in after HISTORY_CAP - 1 overlapping /api/odds
\* requests for draftkings arrived at one instant, two windows before StartMs,
\* and their upstream calls resolved one millisecond apart with OddsBoard.
LongAgo == StartMs - 2 * WINDOW_MS
InitNearCapacity ==
  /\ clock = StartMs
  /\ cache = [InitCache EXCEPT !.odds = Some(OddsRows(OddsBoard, "draftkings")),
                               !.oddsTs = LongAgo, !.windowStart = LongAgo,
                               !.windowUsed = TRUE]
  /\ history = ("g1" :> [i \in 1..(HISTORY_CAP - 1) |-> [ts |-> LongAgo + i, y |-> 210]])
  /\ inflight = EmptyBag
  /\ sent = NoResponse
  /\ upstream = [odds |-> LongAgo, scores |-> 0, espn |-> 0]
  /\ load = 1

\* The odds and history endpoints from that state on.
SpecNearCapacity == InitNearCapacity /\ [][NextOdds]_vars

\* ------------------------------------------- the earlier server (part_000)
\* The earlier version of the server: /api/odds behind a game-hour gate and
\* /api/scores deriving period and clock from the status text of the scores
\* provider. It has a TTL cache, no window and no history.
CACHE_MS_EARLY == 60000
DETAIL_MAX_EARLY == 500
HOUR_MS == 60 * 60 * 1000

\* new Date().getUTCHours()
UTCHours(t) == (t \div HOUR_MS) % 24

\* hourET = getUTCHours() - 4 ; return hourET >= 19 || hourET < 23
inGameWindow(t) ==
  LET hourET == UTCHours(t) - 4
  IN hourET >= 19 \/ hourET < 23

IsDigit(ch) == ch \in Digits
DigitValue(ch) ==
  CASE ch = "0" -> 0 [] ch = "1" -> 1 [] ch = "2" -> 2 [] ch = "3" -> 3 [] ch = "4" -> 4
    [] ch = "5" -> 5 [] ch = "6" -> 6 [] ch = "7" -> 7 [] ch = "8" -> 8 [] ch = "9" -> 9

\* parseInt(digits, 10) of a non-empty run of digits
RECURSIVE ParseInt(_)
ParseInt(ds) ==
  IF Len(ds) = 0 THEN 0
  ELSE 10 * ParseInt(SubSeq(ds, 1, Len(ds) - 1)) + DigitValue(ds[Len(ds)])

\* the literal pat matches str at index i, letters case-insensitively
MatchLit(str, i, pat) ==
  /\ i + Len(pat) - 1 <= Len(str)
  /\ ToLowerCase(SubSeq(str, i, i + Len(pat) - 1)) = ToLowerCase(pat)

\* the index after the longest run of digits (\d*) or blanks (\s*) from i on
RECURSIVE SkipDigits(_, _)
SkipDigits(str, i) == IF i <= Len(str) /\ IsDigit(str[i]) THEN SkipDigits(str, i + 1) ELSE i
RECURSIVE SkipSpaces(_, _)
SkipSpaces(str, i) == IF i <= Len(str) /\ str[i] = " " THEN SkipSpaces(str, i + 1) ELSE i

\* \d{1,2}:\d{2} at index i: the length matched, 0 when there is no match
ClockLenAt(str, i) ==
  LET dig(k) == k <= Len(str) /\ IsDigit(str[k])
      colon(k) == k <= Len(str) /\ str[k] = ":"
  IN IF dig(i) /\ dig(i + 1) /\ colon(i + 2) /\ dig(i + 3) /\ dig(i + 4) THEN 5
     ELSE IF dig(i) /\ colon(i + 1) /\ dig(i + 2) /\ dig(i + 3) THEN 4
     ELSE 0

\* \s*-\s*(\d{1,2}:\d{2}) at index i: the clock text captured, or None
DashClockAt(str, i) ==
  LET d == SkipSpaces(str, i)
      c == SkipSpaces(str, d + 1)
  IN IF d <= Len(str) /\ str[d] = "-" /\ ClockLenAt(str, c) > 0
     THEN Some(SubSeq(str, c, c + ClockLenAt(str, c) - 1))
     ELSE None

\* /(\d+)(st|nd|rd|th) Quarter\s*-\s*(\d{1,2}:\d{2})/i starting at index i
QuarterAt(str, i) ==
  LET j == SkipDigits(str, i)
      suffix == \E suf \in { << "s", "t" >>, << "n", "d" >>, << "r", "d" >>, << "t", "h" >> } :
                  MatchLit(str, j, suf)
      word == MatchLit(str, j + 2, << " ", "Q", "u", "a", "r", "t", "e", "r" >>)
      clk == DashClockAt(str, j + 10)
  IN IF j > i /\ suffix /\ word /\ clk # None
     THEN Some([period |-> ParseInt(SubSeq(str, i, j - 1)), clock |-> clk[1]])
     ELSE None

\* /End of\s*(\d+)/i starting at index i: the number captured, or None
EndOfAt(str, i) ==
  LET d == SkipSpaces(str, i + 6)
      j == SkipDigits(str, d)
  IN IF MatchLit(str, i, << "E", "n", "d", " ", "o", "f" >>) /\ j > d
     THEN Some(ParseInt(SubSeq(str, d, j - 1)))
     ELSE None

\* /(\d*)\s*OT\s*-\s*(\d{1,2}:\d{2})/i starting at index i
OtAt(str, i) ==
  LET j == SkipDigits(str, i)
      o == SkipSpaces(str, j)
      clk == DashClockAt(str, o + 2)
  IN IF MatchLit(str, o, << "O", "T" >>) /\ clk # None
     THEN Some([n |-> IF j > i THEN ParseInt(SubSeq(str, i, j - 1)) ELSE 1, clock |-> clk[1]])
     ELSE None

\* str.match(re): the match at the leftmost index where At(str, i) matches
FirstIndex(hits) == CHOOSE i \in hits : \A k \in hits : i <= k

NoPeriodClock == [period |-> JSNull, clock |-> None]

parsePeriodClock(status) ==
  LET idx == 1..Len(status)
      qs == {i \in idx : QuarterAt(status, i) # None}
      endDigit == \E i \in idx : MatchLit(status, i, << "E", "n", "d", " ", "o", "f", " " >>)
                                   /\ i + 7 <= Len(status) /\ IsDigit(status[i + 7])
      es == {i \in idx : EndOfAt(status, i) # None}
      os == {i \in idx : OtAt(status, i) # None}
  IN IF status = << >> THEN NoPeriodClock
     ELSE IF qs # {}
       THEN [period |-> JSNum(QuarterAt(status, FirstIndex(qs))[1].period),
             clock |-> Some(QuarterAt(status, FirstIndex(qs))[1].clock)]
     ELSE IF ContainsCI(status, << "H", "a", "l", "f", "t", "i", "m", "e" >>)
       THEN [period |-> JSNum(3), clock |-> Some(<< "1", "2", ":", "0", "0" >>)]
     ELSE IF endDigit /\ es # {}
       THEN [period |-> JSNum(EndOfAt(status, FirstIndex(es))[1] + 1),
             clock |-> Some(<< "1", "2", ":", "0", "0" >>)]
     ELSE IF os # {}
       THEN [period |-> JSNum(4 + OtAt(status, FirstIndex(os))[1].n),
             clock |-> Some(OtAt(status, FirstIndex(os))[1].clock)]
     ELSE NoPeriodClock

\* Status texts of the scores provider.
Ordinal(n) ==
  CASE n = 1 -> << "s", "t" >> [] n = 2 -> << "n", "d" >> [] n = 3 -> << "r", "d" >>
    [] OTHER -> << "t", "h" >>
DigitChar(n) == CHOOSE ch \in Digits : DigitValue(ch) = n
ClockTexts ==
  { << "5", ":", "3", "0" >>, << "1", "2", ":", "0", "0" >>, << "0", "3", ":", "1", "0" >> }
\* "<n>(st|nd|rd|th) Quarter - mm:ss"
QuarterText(n, clk) ==
  << DigitChar(n) >> \o Ordinal(n)
    \o << " ", "Q", "u", "a", "r", "t", "e", "r", " ", "-", " " >> \o clk
HalftimeText == << "H", "a", "l", "f", "t", "i", "m", "e" >>
FinalText == << "F", "i", "n", "a", "l" >>
\* "End of quarter <n>" and "End of <n>(st|nd|rd|th) Quarter"
EndOfQuarterText(n) ==
  << "E", "n", "d", " ", "o", "f", " ", "q", "u", "a", "r", "t", "e", "r", " ", DigitChar(n) >>
EndOfNthText(n) ==
  << "E", "n", "d", " ", "o", "f", " ", DigitChar(n) >> \o Ordinal(n)
    \o << " ", "Q", "u", "a", "r", "t", "e", "r" >>
\* "<k>OT - mm:ss", the number absent for k = 0
OtText(k, clk) ==
  (IF k = 0 THEN << >> ELSE << DigitChar(k) >>) \o << "O", "T", " ", "-", " " >> \o clk
StatusTexts ==
  {QuarterText(n, clk) : n \in 1..4, clk \in ClockTexts}
    \cup {OtText(k, clk) : k \in 0..3, clk \in ClockTexts}
    \cup {EndOfQuarterText(n) : n \in 1..4} \cup {EndOfNthText(n) : n \in 1..4}
    \cup {HalftimeText, FinalText, << >>}

\* const trimmed = raw.map(g => ...)
EarlyOddsRow(g, bookmaker) ==
  LET bm == Find(g.bookmakers, LAMBDA b : b.key = bookmaker)
      mk == IF bm = None THEN None ELSE Find(bm[1].markets, LAMBDA m : m.key = "totals")
      over == IF mk = None THEN None ELSE Find(mk[1].outcomes, LAMBDA o : o.name = "Over")
      under == IF mk = None THEN None ELSE Find(mk[1].outcomes, LAMBDA o : o.name = "Under")
  IN [id |-> g.id, home_team |-> g.home_team, away_team |-> g.away_team,
      commence_time |-> g.commence_time,
      bookmaker_last_update |-> IF bm # None THEN bm[1].last_update ELSE NoStr,
      total_point |-> IF over # None /\ over[1].point # JSNull THEN over[1].point
                      ELSE IF under # None /\ under[1].point # JSNull THEN under[1].point
                      ELSE JSNull,
      over_price |-> JSNull, under_price |-> JSNull]
EarlyOddsRows(raw, bookmaker) == [i \in 1..Len(raw) |-> EarlyOddsRow(raw[i], bookmaker)]

\* The process right after construction, at any hour of a day.
InitEarly ==
  /\ clock \in {20 * DAY_MS + h * HOUR_MS : h \in 0..23}
  /\ cache = InitCache
  /\ history = << >>
  /\ inflight = EmptyBag
  /\ sent = NoResponse
  /\ upstream = [odds |-> 0, scores |-> 0, espn |-> 0]
  /\ load = 1

\* /api/odds from its start to the response or to `await fetch(...)`.
EarlyOddsRequest(queryBookmaker) ==
  LET live == TRUE
      bookmaker == IF queryBookmaker = NoStr THEN "draftkings" ELSE queryBookmaker
  IN /\ TurnStarts
     /\ IF ~inGameWindow(clock)
        THEN /\ Respond("odds", live, bookmaker, 200,
                        IF cache.odds # None THEN cache.odds[1] ELSE << >>, FALSE, 0)
             /\ UNCHANGED << inflight, upstream >>
        ELSE IF /\ cache.odds # None /\ clock - cache.oddsTs < CACHE_MS_EARLY
                /\ cache.live = live /\ cache.bookmaker = bookmaker
        THEN /\ Respond("odds", live, bookmaker, 200, cache.odds[1], FALSE, 0)
             /\ UNCHANGED << inflight, upstream >>
        ELSE /\ CanSuspend
             /\ Suspend(OddsHandler(live, bookmaker, clock, 0))
             /\ upstream' = [upstream EXCEPT !.odds = clock]
             /\ UNCHANGED sent
     /\ UNCHANGED << clock, cache, history, load >>

\* status 200 and a JSON array: cache = { ...cache, odds, oddsTs, live, bookmaker }
EarlyOddsResolveOk(q, raw) ==
  LET trimmed == EarlyOddsRows(raw, q.bookmaker)
  IN /\ TurnStarts
     /\ q.pc = "odds_fetch"
     /\ cache' = [cache EXCEPT !.odds = Some(trimmed), !.oddsTs = q.now,
                               !.live = q.live, !.bookmaker = q.bookmaker]
     /\ Respond("odds", q.live, q.bookmaker, 200, trimmed, TRUE, 0)
     /\ Resume(q)
     /\ UNCHANGED << clock, history, upstream, load >>

\* status !== 200: the upstream status with the first 500 characters of the text;
\* a rejected fetch or an unparsable text: 500
EarlyResolveFail(q, kind, status, textLen) ==
  /\ TurnStarts
  /\ q.pc = kind \o "_fetch"
  /\ Respond(kind, q.live, q.bookmaker, status,
             IF status = 500
             THEN [error |-> "Server error", detail |-> Min(textLen, DETAIL_MAX_EARLY)]
             ELSE [error |-> "Upstream error", status |-> status,
                   detail |-> Min(textLen, DETAIL_MAX_EARLY)],
             TRUE, 0)
  /\ Resume(q)
  /\ UNCHANGED << clock, cache, history, upstream, load >>

\* /api/scores from its start to the response or to `await fetch(...)`.
EarlyScoresRequest ==
  /\ TurnStarts
  /\ IF cache.scores # None /\ clock - cache.scoresTs < CACHE_MS_EARLY
     THEN /\ Respond("scores", TRUE, NoStr, 200, cache.scores[1], FALSE, 0)
          /\ UNCHANGED << inflight, upstream >>
     ELSE /\ CanSuspend
          /\ Suspend(ScoresHandler(clock))
          /\ upstream' = [upstream EXCEPT !.scores = clock]
          /\ UNCHANGED sent
  /\ UNCHANGED << clock, cache, history, load >>

\* a game of the scores body whose status text is statusStr and whose totals
\* come as g.home_score and g.away_score
EarlyScoresRow(statusStr) ==
  LET pc == parsePeriodClock(statusStr)
  IN [id |-> "g1", commence_time |-> Some(StartMs - DAY_MS), completed |-> FALSE,
      status |-> IF statusStr = << >> THEN None ELSE Some(statusStr),
      home_team |-> Lakers, away_team |-> Celtics,
      home_score |-> JSNum(55), away_score |-> JSNum(50),
      period |-> pc.period, clock |-> pc.clock]

\* status 200 and a JSON array of one game: cache = { ...cache, scores, scoresTs }
EarlyScoresResolveOk(q, statusStr) ==
  LET mapped == << EarlyScoresRow(statusStr) >>
  IN /\ TurnStarts
     /\ q.pc = "scores_fetch"
     /\ cache' = [cache EXCEPT !.scores = Some(mapped), !.scoresTs = q.now]
     /\ Respond("scores", TRUE, NoStr, 200, mapped, TRUE, 0)
     /\ Resume(q)
     /\ UNCHANGED << clock, history, upstream, load >>

EarlyStatuses == {429, 500}

NextEarly ==
  \/ NextTurn
  \/ \E b \in {NoStr, "fanduel"} : EarlyOddsRequest(b)
  \/ \E q \in BagToSet(inflight), raw \in OddsPayloads : EarlyOddsResolveOk(q, raw)
  \/ EarlyScoresRequest
  \/ \E q \in BagToSet(inflight), st \in StatusTexts : EarlyScoresResolveOk(q, st)
  \/ \E q \in BagToSet(inflight), kind \in {"odds", "scores"}, st \in EarlyStatuses,
        n \in UpstreamTextLens :
       EarlyResolveFail(q, kind, st, n)

\* The earlier server, its requests arriving one at a time.
SpecEarly == InitEarly /\ [][NextEarly]_vars

\* The whole server, its requests arriving one at a time.
Spec == Init /\ [][Next]_vars

\* Every upstream call returns or throws: the continuation of some suspended
\* handler runs.
UpstreamReturns ==
  \/ \E q \in BagToSet(inflight), data \in OddsPayloads : OddsResolveOk(q, data)
  \/ \E q \in BagToSet(inflight), n \in UpstreamTextLens : OddsResolveNotOk(q, n)
  \/ \E q \in BagToSet(inflight), n \in ThrownTextLens : OddsResolveThrow(q, n)
  \/ \E q \in BagToSet(inflight), data \in ScoresPayloads : ScoresResolveOk(q, data)
  \/ \E q \in BagToSet(inflight), n \in UpstreamTextLens : ScoresResolveNotOk(q, n)
  \/ \E q \in BagToSet(inflight), n \in ThrownTextLens : ScoresResolveThrow(q, n)
  \/ \E q \in BagToSet(inflight), events \in EspnPayloads : EspnResolveOk(q, events)
  \/ \E q \in BagToSet(inflight) : EspnResolveFail(q)

\* The whole server under an event loop that ends every turn and runs the
\* continuation of every upstream call that has returned, however many other
\* requests are answered meanwhile.
SpecLive == Init /\ [][Next]_vars /\ WF_vars(NextTurn) /\ SF_vars(UpstreamReturns)

\* Overlapping requests, to the odds and history endpoints and to the scores
\* and history endpoints: the odds and the scores handlers share no state but
\* the clock.
SpecOdds == InitOverlap /\ [][NextOdds]_vars
SpecScores == InitOverlap /\ [][NextScores]_vars

\* =================================================================== claims
\* the parameters (live, bookmaker) a query asks for
QueryLive(query) == query[1] # "false"
QueryBookmaker(query) == IF query[2] = NoStr THEN "draftkings" ELSE query[2]
\* the window opened at cache.windowStart is still the current one at instant t
WindowOpenAt(t) == cache.windowStart # 0 /\ t - cache.windowStart <= WINDOW_MS
OddsInFlight == {q \in BagToSet(inflight) : q.pc = "odds_fetch"}

\* C1: once an upstream odds fetch has been dispatched at time t, no other
\* upstream odds fetch is dispatched at any time in (t, t + WINDOW_MS].
C1_WindowProperty ==
  [][(upstream.odds # 0 /\ upstream'.odds # upstream.odds)
       => upstream'.odds - upstream.odds > WINDOW_MS]_vars

\* C2: of the /api/odds requests that arrive in the same window and pass the
\* cache check before any of their upstream calls has resolved, at most one
\* dispatches an upstream fetch: no two fetches of one window are in flight.
C2_OneDispatchPerWindow ==
  \A q \in OddsInFlight :
    /\ CopiesIn(q, inflight) = 1
    /\ \A p \in OddsInFlight : p.win = q.win => p = q

\* C3: after an upstream odds call returned non-success or threw, windowUsed
\* is true for the rest of the window in which the call was dispatched.
C3_FailedFetchConsumesWindow ==
  (sent.kind = "odds" /\ sent.fetched /\ sent.status \in {422, 500}
     /\ sent.win = cache.windowStart)
    => cache.windowUsed

\* C4: an /api/odds request that arrives when the window's fetch is consumed and
\* whose parameters differ from the cached entry's fingerprint is answered 200
\* with the cached rows, and dispatches no upstream fetch.
C4_StaleServedOnMismatch ==
  [][\A query \in OddsQueries :
       (/\ OddsRequest(query)
        /\ WindowOpenAt(clock) /\ cache.windowUsed
        /\ cache.odds # None
        /\ (cache.live # QueryLive(query) \/ cache.bookmaker # QueryBookmaker(query)))
       => (/\ sent'.kind = "odds" /\ sent'.status = 200
           /\ sent'.body = cache.odds[1]
           /\ ~sent'.fetched
           /\ inflight' = inflight
           /\ upstream' = upstream)]_vars

\* C4 witness: a request was just answered with rows cached under another
\* fingerprint, in a window whose fetch is consumed.
C4_Witness ==
  /\ sent.kind = "odds" /\ sent.status = 200 /\ ~sent.fetched
  /\ cache.windowUsed /\ cache.odds # None
  /\ (sent.live # cache.live \/ sent.bookmaker # cache.bookmaker)
  /\ sent.body = cache.odds[1]

C6_ScoresAndClockThrottled ==
  [][/\ (upstream.scores # 0 /\ upstream'.scores # upstream.scores)
          => upstream'.scores - upstream.scores > WINDOW_MS
     /\ (upstream.espn # 0 /\ upstream'.espn # upstream.espn)
          => upstream'.espn - upstream.espn > WINDOW_MS
     /\ \A pc \in {"scores_fetch", "espn_fetch"} :
          Cardinality({q \in BagToSet(inflight') : q.pc = pc}) <= 1
          /\ \A q \in BagToSet(inflight') : q.pc = pc => CopiesIn(q, inflight') = 1]_vars

\* C7: every series holds at most HISTORY_CAP points; an append to a series
\* holding HISTORY_CAP points removes exactly the oldest point and keeps the
\* others in order; once HISTORY_CAP + 1 points were appended to g1, the first
\* point recorded for g1 is not in its series.
RecordableIds(rows) ==
  {rows[i].id : i \in {j \in 1..Len(rows) :
                         rows[j].total_point.type = "number" /\ rows[j].commence_time # NoStr}}
\* the step is a successful odds fetch whose response has a recordable row for g
AppendsTo(g) ==
  /\ sent'.kind = "odds" /\ sent'.status = 200 /\ sent'.fetched
  /\ g \in RecordableIds(sent'.body)
NewPoints(g) == {i \in 1..Len(history[g]) : history[g][i].ts >= StartMs}
C7_HistoryBoundedFifo ==
  /\ [](\A g \in DOMAIN history : Len(history[g]) <= HISTORY_CAP)
  /\ [][\A g \in DOMAIN history :
          (Len(history[g]) = HISTORY_CAP /\ AppendsTo(g))
          => (/\ Len(history'[g]) = HISTORY_CAP
              /\ SubSeq(history'[g], 1, HISTORY_CAP - 1) = Tail(history[g])
              /\ history'[g][HISTORY_CAP].ts = clock)]_vars
  /\ []((Len(history["g1"]) = HISTORY_CAP /\ Cardinality(NewPoints("g1")) >= 2)
          => \A i \in 1..HISTORY_CAP : history["g1"][i] # [ts |-> LongAgo + 1, y |-> 210])

\* C7 witness: HISTORY_CAP + 1 points were appended to g1, whose series now
\* starts at the second point recorded.
C7_Witness ==
  /\ Len(history["g1"]) = HISTORY_CAP
  /\ Cardinality(NewPoints("g1")) = 2
  /\ history["g1"][1] = [ts |-> LongAgo + 2, y |-> 210]

\* C8: the points of every series are in non-decreasing order of ts.
C8_HistoryTsNonDecreasing ==
  \A g \in DOMAIN history :
    \A i \in 1..(Len(history[g]) - 1) : history[g][i].ts <= history[g][i + 1].ts

\* C8 witness: a series holds points of two instants, the last one appended by
\* a request that arrived before the previous point was recorded.
C8_Witness ==
  \E g \in DOMAIN history :
    /\ Len(history[g]) >= 2
    /\ history[g][1].ts < history[g][Len(history[g])].ts
    /\ cache.oddsTs < history[g][Len(history[g]) - 1].ts

\* C9: the history changes only in the step of a successful upstream odds
\* fetch; that step creates or extends a series only for a row of its response
\* whose total_point is a number and whose commence_time is present, and it
\* removes no series.
C9_HistoryOnlyFromOddsSuccess ==
  [][history' # history
       => (/\ sent'.kind = "odds" /\ sent'.status = 200 /\ sent'.fetched
           /\ DOMAIN history \subseteq DOMAIN history'
           /\ \A g \in DOMAIN history' :
                (g \notin DOMAIN history \/ history'[g] # history[g])
                => g \in RecordableIds(sent'.body))]_vars

\* C9 witness: a successful fetch just recorded a point for one row and none
\* for a row that lacks commence_time or a numeric total_point.
C9_Witness ==
  /\ sent.kind = "odds" /\ sent.status = 200 /\ sent.fetched
  /\ \E g \in DOMAIN history : history[g][Len(history[g])].ts = clock
  /\ \E i \in 1..Len(sent.body) :
       /\ sent.body[i].id \notin RecordableIds(sent.body)
       /\ sent.body[i].id \notin DOMAIN history
  /\ cache.scores # None

\* C10: the /api/history response holds, for each entity, exactly the recorded
\* points with start <= ts < start + 24h in their stored order, start being the
\* start of the local day of the query; an entity without such a point is absent.
DayStartOf(t) == t - (t % DAY_MS)
TodayIdx(g) ==
  {i \in 1..Len(history[g]) :
     history[g][i].ts >= DayStartOf(clock) /\ history[g][i].ts < DayStartOf(clock) + DAY_MS}
NthToday(g, k) == CHOOSE i \in TodayIdx(g) : Cardinality({j \in TodayIdx(g) : j < i}) = k - 1
C10_HistoryQueryExact ==
  sent.kind = "history"
    => (/\ sent.status = 200
        /\ DOMAIN sent.body = {g \in DOMAIN history : TodayIdx(g) # {}}
        /\ \A g \in DOMAIN sent.body :
             /\ Len(sent.body[g]) = Cardinality(TodayIdx(g))
             /\ \A k \in 1..Len(sent.body[g]) : sent.body[g][k] = history[g][NthToday(g, k)])

\* C10 witness: a query just answered left out an entity recorded on the day
\* before and returned a part only of another entity's series.
C10_Witness ==
  /\ sent.kind = "history"
  /\ \E g \in DOMAIN history : g \notin DOMAIN sent.body
  /\ \E g \in DOMAIN sent.body : Len(sent.body[g]) < Len(history[g])

\* C11: every row /api/scores returns for a game whose commence_time is in the
\* future has home_score, away_score, period and clock null and completed
\* false, whatever the upstream record and the clock map hold.
C11_PreTipGuard ==
  (sent.kind = "scores" /\ sent.status = 200)
    => \A data \in ScoresPayloads : \A i \in 1..Len(data) :
         (data[i].commence_time # None /\ clock < data[i].commence_time[1])
         => \A k \in 1..Len(sent.body) :
              sent.body[k].id = data[i].id
              => (/\ sent.body[k].home_score = JSNull
                  /\ sent.body[k].away_score = JSNull
                  /\ sent.body[k].period = JSNull
                  /\ sent.body[k].clock = None
                  /\ sent.body[k].completed = FALSE)

\* C12: on an upstream non-success response the odds and the scores handler
\* answer 422 with { error, status, detail }, the detail no longer than
\* ERR_DETAIL_MAX; they dispatch no further upstream call and leave the cache
\* and the history unchanged.
C12_UpstreamErrorContract ==
  [][(sent = NoResponse /\ sent'.kind \in {"odds", "scores"} /\ sent'.status = 422)
       => (/\ sent'.fetched
           /\ sent'.body.status = 422
           /\ upstream' = upstream
           /\ BagCardinality(inflight') = BagCardinality(inflight) - 1
           /\ cache' = cache
           /\ history' = history
           /\ sent'.body.detail <= ERR_DETAIL_MAX)]_vars

\* C13: whenever the scoreboard call of a scores request completes, the request
\* is answered 200 with one row per upstream game; when the call failed (the
\* clock map is empty) every row has period and clock null.
C13_ClockFailureNotFatal ==
  [][\A q \in BagToSet(inflight) :
       (q.pc = "espn_fetch" /\ inflight' = inflight (-) SetToBag({q}))
       => (/\ sent'.kind = "scores" /\ sent'.status = 200
           /\ Len(sent'.body) = Len(q.data)
           /\ \A i \in 1..Len(q.data) : sent'.body[i].id = q.data[i].id
           /\ cache'.espn # None
           /\ cache'.espn = Some(<< >>)
                => \A i \in 1..Len(q.data) :
                     sent'.body[i].period = JSNull /\ sent'.body[i].clock = None)]_vars

\* C13 witness: a scores request was just answered 200 from an empty clock map,
\* with a row per game, scores present and period and clock null.
C13_Witness ==
  /\ sent.kind = "scores" /\ sent.status = 200 /\ sent.fetched
  /\ cache.espn = Some(<< >>)
  /\ Len(sent.body) = 2
  /\ sent.body[1].home_score # JSNull
  /\ \A i \in 1..2 : sent.body[i].period = JSNull /\ sent.body[i].clock = None

\* C14: the odds cache entry changes only in the step of a successful fetch,
\* and then as a whole: the rows are the rows that fetch produced, the
\* fingerprint its (live, bookmaker), oddsTs the instant its request arrived.
OddsEntry(c) == << c.odds, c.oddsTs, c.live, c.bookmaker >>
C14_OddsEntryAtomic ==
  /\ [](cache.odds # None
          => \E data \in OddsPayloads : cache.odds[1] = OddsRows(data, cache.bookmaker))
  /\ [][OddsEntry(cache') # OddsEntry(cache)
          => \E q \in OddsInFlight :
               /\ inflight' = inflight (-) SetToBag({q})
               /\ sent'.kind = "odds" /\ sent'.status = 200 /\ sent'.fetched
               /\ \E data \in OddsPayloads : sent'.body = OddsRows(data, q.bookmaker)
               /\ OddsEntry(cache') = << Some(sent'.body), q.now, q.live, q.bookmaker >>]_vars

\* C14 witness: a fetch for fanduel just replaced the entry while another odds
\* request is still in flight.
C14_Witness ==
  /\ sent.kind = "odds" /\ sent.status = 200 /\ sent.fetched
  /\ cache.odds = Some(sent.body) /\ sent.body # << >>
  /\ cache.bookmaker = "fanduel" /\ ~cache.live
  /\ \E q \in OddsInFlight : q.bookmaker # cache.bookmaker

\* C15: in every row of the earlier /api/scores, a status "<n>(st|nd|rd|th)
\* Quarter - mm:ss" gives period n with that clock, "Halftime" period 3 with
\* clock "12:00", "Final" period 4 with clock "0:00", and "<k>OT - mm:ss"
\* period 4 + k (k = 1 when absent) with that clock.
RowStatusIs(row, text) == row.status = Some(text)
C15_ClockParsingTable ==
  (sent.kind = "scores" /\ sent.status = 200)
    => \A i \in 1..Len(sent.body) :
         LET row == sent.body[i]
         IN /\ \A n \in 1..4, clk \in ClockTexts :
                 RowStatusIs(row, QuarterText(n, clk))
                 => row.period = JSNum(n) /\ row.clock = Some(clk)
            /\ RowStatusIs(row, HalftimeText)
                 => row.period = JSNum(3) /\ row.clock = Some(<< "1", "2", ":", "0", "0" >>)
            /\ RowStatusIs(row, FinalText)
                 => row.period = JSNum(4) /\ row.clock = Some(<< "0", ":", "0", "0" >>)
            /\ \A k \in 0..3, clk \in ClockTexts :
                 RowStatusIs(row, OtText(k, clk))
                 => /\ row.period = JSNum(4 + (IF k = 0 THEN 1 ELSE k))
                    /\ row.clock = Some(clk)

\* C16: inGameWindow() is true exactly when the Eastern hour (UTC-4) is one of
\* 19..22; a request to the earlier /api/odds outside those hours dispatches no
\* upstream call and is answered with the cached odds or an empty array.
EasternHour(t) == (UTCHours(t) + 20) % 24
InGameHours(t) == EasternHour(t) \in 19..22
C16_GameHourGate ==
  /\ [](inGameWindow(clock) <=> InGameHours(clock))
  /\ [][\A b \in {NoStr, "fanduel"} :
          (EarlyOddsRequest(b) /\ ~InGameHours(clock))
          => (/\ upstream' = upstream /\ inflight' = inflight
              /\ sent'.kind = "odds" /\ sent'.status = 200
              /\ sent'.body = IF cache.odds # None THEN cache.odds[1] ELSE << >>)]_vars

\* C17: for an "End of quarter N" status, N in 1..4, the row of the earlier
\* /api/scores has period min(N + 1, 4) and clock "12:00".
C17_EndOfQuarter ==
  (sent.kind = "scores" /\ sent.status = 200)
    => \A i \in 1..Len(sent.body) : \A n \in 1..4 :
         (RowStatusIs(sent.body[i], EndOfQuarterText(n))
            \/ RowStatusIs(sent.body[i], EndOfNthText(n)))
         => /\ sent.body[i].period = JSNum(Min(n + 1, 4))
            /\ sent.body[i].clock = Some(<< "1", "2", ":", "0", "0" >>)

\* C18: an event whose display clock carries a halftime marker is stored in
\* the clock map as period 3, clock "12:00", also when its state is "post" or
\* the text carries a final marker; an event matching the final rule only is
\* stored as period 4, clock "0:00".
EventKey(ev) == TeamPairKey(normTeam(ev.away), normTeam(ev.home))
HasHalf(ev) == ContainsCI(ev.displayClock, << "h", "a", "l", "f" >>)
HasFinal(ev) ==
  \/ ContainsCI(ev.displayClock, << "f", "i", "n", "a", "l" >>)
  \/ ToLowerCase(ev.state) = << "p", "o", "s", "t" >>
BoardEvents ==
  {[key |-> EventKey(ev), named |-> normTeam(ev.home) # << >> /\ normTeam(ev.away) # << >>,
    state |-> ToLowerCase(ev.state), period |-> ev.period,
    half |-> HasHalf(ev), final |-> HasFinal(ev)] :
     ev \in UNION {{events[i] : i \in 1..Len(events)} : events \in EspnPayloads}}
C18_HalftimeBeforeFinal ==
  cache.espn # None
    => \A ev \in BoardEvents : \A i \in 1..Len(cache.espn[1]) :
         cache.espn[1][i].key = ev.key
         => /\ ev.half
                 => cache.espn[1][i].val =
                      [period |-> JSNum(3), clock |-> Some(<< "1", "2", ":", "0", "0" >>)]
            /\ (~ev.half /\ ev.final)
                 => cache.espn[1][i].val =
                      [period |-> JSNum(4), clock |-> Some(<< "0", ":", "0", "0" >>)]

\* C19: every entry of the clock map has a key made of two non-empty
\* normalized team names and comes from an event whose state is "in" or "post"
\* or whose period is resolved; an event with neither is not in the map.
Unqualified(ev) ==
  /\ ev.state \notin { << "i", "n" >>, << "p", "o", "s", "t" >> }
  /\ ev.period \in {JSNull, JSNum(0)}
  /\ ~ev.half /\ ~ev.final
C19_ClockMapEntriesQualified ==
  cache.espn # None
    => /\ \A i \in 1..Len(cache.espn[1]) :
            \E ev \in BoardEvents :
              /\ cache.espn[1][i].key = ev.key
              /\ ev.named
              /\ \/ ev.state \in { << "i", "n" >>, << "p", "o", "s", "t" >> }
                 \/ cache.espn[1][i].val.period # JSNull
       /\ \A ev \in BoardEvents :
            (Unqualified(ev) \/ ~ev.named)
            => \A i \in 1..Len(cache.espn[1]) : cache.espn[1][i].key # ev.key

\* C19 witness: the map was built from a board with an event not started and
\* without a period, left out, and one not started with a period, kept.
C19_Witness ==
  /\ cache.espn # None
  /\ \E ev \in BoardEvents :
       /\ Unqualified(ev)
       /\ \A i \in 1..Len(cache.espn[1]) : cache.espn[1][i].key # ev.key
  /\ \E ev \in BoardEvents : \E i \in 1..Len(cache.espn[1]) :
       /\ cache.espn[1][i].key = ev.key
       /\ ev.state = << "p", "r", "e" >>
       /\ cache.espn[1][i].val.period = JSNum(1)

\* C20: whenever windowUsed is true the odds cache holds a value, and no
\* upstream odds call is dispatched by a request that finds the window used.
C20_UsedImpliesCached ==
  /\ [](cache.windowUsed => cache.odds # None)
  /\ [][upstream'.odds # upstream.odds
          => ~(WindowOpenAt(clock) /\ cache.windowUsed)]_vars

\* C20 witness: the window is used, the cached value is an empty array, and a
\* request was just answered from it without an upstream call.
C20_Witness ==
  /\ cache.windowUsed
  /\ cache.odds = Some(<< >>)
  /\ sent.kind = "odds" /\ sent.status = 200 /\ ~sent.fetched
  /\ sent.body = << >>

\* C21: cache.oddsTs never decreases: the result of a request that arrived
\* earlier never replaces the entry written by a request that arrived later.
C21_OddsTsMonotone ==
  [][cache'.oddsTs >= cache.oddsTs]_vars

\* C22: provided every upstream call returns or throws, every request is
\* answered exactly once: a request that does not suspend is answered in its own
\* step, a suspended handler leaves only by writing the one response of its
\* request (200, 422 or 500), every suspended handler is eventually answered,
\* and after an error response the server is again ready for requests.
HandlerKind(q) == IF q.pc = "odds_fetch" THEN "odds" ELSE "scores"
Pending(kind) == \E q \in BagToSet(inflight) : HandlerKind(q) = kind
C22_EveryRequestAnswered ==
  /\ [][/\ BagCardinality(inflight') < BagCardinality(inflight)
            => (/\ sent = NoResponse
                /\ sent'.fetched /\ sent'.status \in {200, 422, 500}
                /\ \E q \in BagToSet(inflight) :
                     inflight' = inflight (-) SetToBag({q}) /\ sent'.kind = HandlerKind(q))
        /\ (sent = NoResponse /\ sent' = NoResponse)
             => BagCardinality(inflight') >= BagCardinality(inflight)]_vars
  /\ \A kind \in {"odds", "scores"} :
       Pending(kind) ~> (sent.fetched /\ sent.kind = kind /\ ~Pending(kind))
  /\ (sent.status \in {422, 500}) ~> (sent = NoResponse)

\* C22 witness: an odds fetch failed earlier (a call was dispatched, nothing is
\* cached, nothing is in flight) and a later scores request was just answered.
C22_Witness ==
  /\ upstream.odds # 0 /\ cache.odds = None /\ inflight = EmptyBag
  /\ sent.kind = "scores" /\ sent.status = 200 /\ sent.fetched
  /\ upstream.scores > upstream.odds

====
